---- MODULE Spec2Model ----
(***************************************************************************)
(* A model of the task server of llm-code-deployment: the request handler  *)
(* (TaskHandler.handleTask), the background task it starts                 *)
(* (TaskHandler.processTaskAsync) and the repository client the task       *)
(* drives (GitHubManager), together with the hosting platform and the      *)
(* evaluation endpoint the task talks to.                                  *)
(*                                                                         *)
(* The process is a single Node.js event loop: code between two awaits     *)
(* runs without interruption.  Every action below is one such run: it      *)
(* handles the answer of the call a task is waiting for and goes on to     *)
(* the next call.  A timer wait that touches no shared state is added to   *)
(* the task's `waited` and folded into the step that starts it.  The       *)
(* local file-system and git calls a task makes in a row (remove and       *)
(* init, the writes of the file set, add and commit) are taken as one step *)
(* each: the working copy of a repository name is one directory, shared by *)
(* every task of that name, and another task may act on it between two     *)
(* such steps.                                                             *)
(***************************************************************************)
EXTENDS Integers, Sequences, FiniteSets, TLC

(***************************************************************************)
(* Bounds of the model.                                                    *)
(***************************************************************************)
\* number of requests the server receives
MaxRequests == 2
\* the maxAttempts argument of waitForPagesDeployment (the callers pass 15)
MaxChecks == 2
\* MAX_RETRIES of the environment (5 when unset)
MaxRetries == 2

(***************************************************************************)
(* Program constants.                                                      *)
(***************************************************************************)
maxPushAttempts == 3
PushBackoffMs == 2000
PollIntervalMs == 5000
CdnWaitMs == 10000
SafetyWaitMs == 15000
PagesReadyWaitMs == 2000
Round1BufferMs == 10000
Round2BufferMs == 20000
InitialRetryDelay == 1

(***************************************************************************)
(* Inputs.  A task name is a sequence of characters.                       *)
(***************************************************************************)
Emails == {"u1@x.io", "u2@x.io"}
\* an address without @
BadEmail == "nobody"
\* an address with whitespace before the @
SpacedEmail == "Invalid secret@x.io"
TaskNames == {<<>>, <<" ">>, <<"a">>, <<"A">>}
Rounds == {1, 2, 3}
Nonces == {"n1", "n2"}
Requests ==
  [email : Emails \cup {BadEmail, SpacedEmail}, secret : {"good", "bad"},
   task : TaskNames, round : Rounds, nonce : {"n1"}, complete : BOOLEAN]

\* String.prototype.toLowerCase on one character of the alphabet
toLowerCase(c) == IF c = "A" THEN "a" ELSE IF c = "B" THEN "b" ELSE c

\* [a-z0-9-] on one character
IsRepoChar(c) == c \in {"a", "b", "0", "-"}

RECURSIVE CollapseDashes(_)
\* .replace(/-+/g, '-')
CollapseDashes(s) ==
  IF Len(s) <= 1 THEN s
  ELSE IF s[1] = "-" /\ s[2] = "-" THEN CollapseDashes(Tail(s))
  ELSE <<s[1]>> \o CollapseDashes(Tail(s))

TrimLeadingDash(s) == IF Len(s) > 0 /\ s[1] = "-" THEN Tail(s) ELSE s

\* .replace(/^-|-$/g, ''): one leading and one trailing dash are removed
TrimDash(s) ==
  LET a == IF Len(s) > 0 /\ s[1] = "-" THEN Tail(s) ELSE s
  IN  IF Len(a) > 0 /\ a[Len(a)] = "-" THEN SubSeq(a, 1, Len(a) - 1) ELSE a

sanitizeRepoName(taskName) ==
  LET lower == [i \in 1..Len(taskName) |-> toLowerCase(taskName[i])]
      repl  == [i \in 1..Len(lower) |-> IF IsRepoChar(lower[i]) THEN lower[i] ELSE "-"]
  IN  TrimDash(CollapseDashes(repl))

IsEmpty(task) == task = <<>>

\* !task || !task.trim(): the name is empty or only whitespace
IsBlank(task) == \A i \in 1..Len(task) : task[i] = " "

RepoNames == {sanitizeRepoName(n) : n \in TaskNames}

\* the commit a repository holds before the process starts, and the content
\* of the files of that commit
OldCommit == MaxRequests + 1

\* the paths of a repository: the three generateApplication yields and one
\* more that only an earlier commit holds
Generated == {"index.html", "LICENSE", "README.md"}
Paths == Generated \cup {"notes.md"}

\* no file at the path
Absent == 0

\* generateLicense(): the same text for every request
LicenseText == MaxRequests + 2

\* generateApplication for the request of task t: the page (from the LLM, or
\* the fallback) and the README are this request's, the licence is fixed
generateApplication(t) ==
  [p \in Generated |-> IF p = "LICENSE" THEN LicenseText ELSE t]

EmptyTree == [p \in Paths |-> Absent]
OldTree == [p \in Paths |-> OldCommit]

\* for (const [filename, content] of Object.entries(files)) fs.writeFile(...)
WriteFiles(dir, files) ==
  [p \in Paths |-> IF p \in DOMAIN files THEN files[p] ELSE dir[p]]

\* a path of reposDir that does not exist
NoDir ==
  [exists |-> FALSE, files |-> EmptyTree, log |-> <<>>, commit |-> EmptyTree,
   origin |-> FALSE]

\* the directory after fs.ensureDir and git init: no file, no commit, no remote
FreshDir ==
  [exists |-> TRUE, files |-> EmptyTree, log |-> <<>>, commit |-> EmptyTree,
   origin |-> FALSE]

\* the commits of a history
Commits(log) == {log[i] : i \in DOMAIN log}

VARIABLES
  processedTasks,  \* TaskHandler.processedTasks: key -> entry
  repoTracking,    \* TaskHandler.repoTracking: email -> task name
  tasks,           \* the background tasks, in the order they were started
  answered,        \* the answers given so far, in order of arrival
  repos,           \* platform: the repositories that exist
  head,            \* platform: the latest commit of the default branch (0: none)
  pages,           \* platform: static hosting enabled
  live,            \* platform: the commit of the latest finished build (0: none)
  tree,            \* platform: the files of the default branch, path -> content
  workdir,         \* reposDir: repository name -> the local working copy:
                   \*   files  the files in the directory
                   \*   log    the commits of the local branch, oldest first
                   \*   commit the files of the latest local commit
                   \*   origin the remote 'origin' is configured
  retry,           \* one call of retryRequest on its own: its arguments, its
                   \* loop variable, and what it has done so far
  canon,           \* sanitizeRepoName on its own: a string, what the function
                   \* makes of it, and what it makes of that
  gen,             \* generateApplication on its own: the request's task, what
                   \* the LLM call does, and what the function returns
  received         \* the requests handleTask was called with, in order (kept
                   \* where the handler is run on its own)

vars ==
  <<processedTasks, repoTracking, tasks, answered, repos, head, pages, live, tree,
    workdir, retry, canon, gen, received>>
platform == <<repos, head, pages, live, tree>>
\* the functions run on their own
alone == <<retry, canon, gen>>

\* no call of retryRequest on its own
NoCall ==
  [maxRetries |-> 0, initialDelay |-> 0, attempt |-> 0, calls |-> 0, slept |-> 0,
   answer |-> "none", result |-> "none", value |-> "none"]

\* the process after construction: empty tables, no task, no local
\* directory; the platform holds no repository, or one from an earlier run
Boot ==
  /\ processedTasks = <<>>
  /\ repoTracking = <<>>
  /\ tasks = <<>>
  /\ answered = <<>>
  /\ \E old \in SUBSET (RepoNames \ {<<>>}) :
       /\ repos = old
       /\ head = [n \in RepoNames |-> IF n \in old THEN OldCommit ELSE 0]
       /\ pages = [n \in RepoNames |-> n \in old]
       /\ live = [n \in RepoNames |-> IF n \in old THEN OldCommit ELSE 0]
       /\ tree = [n \in RepoNames |-> IF n \in old THEN OldTree ELSE EmptyTree]
  /\ workdir = [n \in RepoNames |-> NoDir]

\* no call of generateApplication on its own
NoAnswer == [fence |-> "none", markup |-> "none", ending |-> "unasked"]
NoGen ==
  [task |-> <<>>, answer |-> NoAnswer, result |-> "none", files |-> <<>>]

\* no call of sanitizeRepoName on its own
NoCanon == [taskName |-> <<>>, calls |-> 0, once |-> <<>>, twice |-> <<>>]

Init ==
  /\ Boot
  /\ retry = NoCall
  /\ canon = NoCanon
  /\ gen = NoGen
  /\ received = <<>>

(***************************************************************************)
(* TaskHandler.handleTask                                                  *)
(***************************************************************************)
\* `${repoName}-${request.round}`: the round is the last character, so the
\* string determines the pair
TaskKey(repoName, round) == <<repoName, round>>

HasNever(map, key) == FALSE

\* Map.prototype.has
Has(map, key) == key \in DOMAIN map

MapSetDropsNew(map, key, value) ==
  [k \in DOMAIN map |-> IF k = key THEN value ELSE map[k]]

\* Map.prototype.set
MapSet(map, key, value) ==
  [k \in DOMAIN map \cup {key} |-> IF k = key THEN value ELSE map[k]]

\* a value of processedTasks: {status, error} or {status, repoDetails}
Entry(status, error, commitSha) ==
  [status |-> status, error |-> error, commit_sha |-> commitSha]

emailRegexNoAt(email) == email # BadEmail

\* /^[^\s@]+@[^\s@]+\.[^\s@]+$/.test(email): of the addresses tried, one has
\* no @ and one has whitespace
emailRegex(email) == email \notin {BadEmail, SpacedEmail}

\* validateRequest: "ok" or the message of the error it throws
validateRequest(r) ==
  IF ~r.complete THEN "Missing required field"
  ELSE IF r.round # 1 /\ r.round # 2 THEN "Round must be 1 or 2"
  ELSE IF ~emailRegex(r.email) THEN "Invalid email format"
  ELSE "ok"

\* verifyRequestSecret
verifyRequestSecret(r) == r.secret = "good"

\* determineRepoName: the name it returns, or the message of the error it
\* throws.  A message is the sequence of its parts: the text of the template
\* and the values it embeds.
determineRepoName(r) ==
  IF r.round = 1
  THEN IF IsBlank(r.task)
       THEN [ok |-> FALSE, name |-> <<>>,
             err |-> <<"Task name is required for Round 1">>]
       ELSE [ok |-> TRUE, name |-> r.task, err |-> <<>>]
  ELSE IF ~IsBlank(r.task) THEN [ok |-> TRUE, name |-> r.task, err |-> <<>>]
       ELSE IF Has(repoTracking, r.email) /\ repoTracking[r.email] # <<>>
            THEN [ok |-> TRUE, name |-> repoTracking[r.email], err |-> <<>>]
            ELSE [ok |-> FALSE, name |-> <<>>,
                  err |-> <<"Cannot determine repository name for Round 2",
                            r.email>>]

TrackRepoOnce(r) ==
  IF r.round = 1 /\ ~IsBlank(r.task) /\ ~Has(repoTracking, r.email)
  THEN MapSet(repoTracking, r.email, r.task)
  ELSE repoTracking

\* determineRepoName's write: round 1 stores the name for the email
TrackRepo(r) ==
  IF r.round = 1 /\ ~IsBlank(r.task) THEN MapSet(repoTracking, r.email, r.task)
  ELSE repoTracking

\* String.prototype.includes on one part of a message: the part is the
\* text searched for, or the one address tried that holds it
PartIncludes(part, text) ==
  part = text \/ (text = "Invalid secret" /\ part = SpacedEmail)

\* error.message.includes(text)
Includes(msg, text) == \E i \in 1..Len(msg) : PartIncludes(msg[i], text)

\* setupRoutes: the status of an error answer
ErrorStatus(msg) == IF Includes(msg, "Invalid secret") THEN 401 ELSE 500

\* what the caller receives: the body's status (or the text of the error,
\* without what it embeds) and the code;
\* `started` is the outbound calls the request's task has initiated by the
\* time the answer is produced
Answer(status, http, key, started) ==
  [status |-> status, http |-> http, key |-> key, started |-> started]

NoKey == TaskKey(<<>>, 0)

\* this.username
Owner == "owner"

\* https://github.com/${this.username}/${repoName}, also the html_url the
\* platform reports for the repository of that name
RepoUrl(repoName) == <<"https://github.com/", Owner, "/", repoName>>

\* https://${this.username}.github.io/${repoName}/
PagesUrl(repoName) == <<"https://", Owner, ".github.io/", repoName, "/">>

\* no payload built yet
NoPayload ==
  [email |-> "", task |-> <<>>, round |-> 0, nonce |-> "", repo_url |-> <<>>,
   commit_sha |-> 0, pages_url |-> <<>>]

\* the task processTaskAsync starts: it runs up to the generator's LLM call.
\*   attempt: the loop counter of the call in progress
\*   waited:  the timers (ms) the call in progress has waited for
\*   polls:   the calls of waitForPagesDeployment made
\*   seen:    the answer of the status query the last step handled
\*   built:   what the last waitForPagesDeployment of the task returned
\*   posts, acks: the POSTs the evaluator received and answered 2xx
\*   oks:     the POSTs the evaluator answered 200
\*   payload: completePayload, once built
\*   cloned:  the commit of the remote branch when the task cloned it,
\*            until its push loop ends
\*   pushed:  the commit the task's git push has sent, until its
\*            getLatestCommitSha returns
NewTask(r, repoName) ==
  [pc |-> "generate", email |-> r.email, task |-> repoName, round |-> r.round,
   nonce |-> r.nonce,
   repo |-> <<>>, attempt |-> 0, waited |-> 0, commitSha |-> 0, pushed |-> 0,
   cloned |-> 0,
   polls |-> 0, seen |-> "none", built |-> "none", posts |-> 0, acks |-> 0,
   oks |-> 0,
   payload |-> NoPayload]

\* the outbound call a task has initiated and not seen the answer of: a task
\* that processTaskAsync has just started is inside generateApplication, at
\* the await of llmClient.generateCode, which has called
\* model.generateContent
InFlight(rec) == IF rec.pc = "generate" THEN {"llm"} ELSE {}

RejectRecorded(msg) ==
  /\ answered' = Append(answered, Answer(msg[1], ErrorStatus(msg), NoKey, {}))
  /\ processedTasks' = MapSet(processedTasks, NoKey, Entry("failed", msg[1], 0))
  /\ UNCHANGED <<repoTracking, tasks, platform, workdir, alone>>

\* handleTask throws: the route answers with the error
Reject(msg) ==
  /\ answered' = Append(answered, Answer(msg[1], ErrorStatus(msg), NoKey, {}))
  /\ UNCHANGED <<processedTasks, repoTracking, tasks, platform, workdir, alone>>

\* handleTask(request), up to its return or throw
handleTask(r) ==
  /\ IF validateRequest(r) # "ok" THEN Reject(<<validateRequest(r)>>)
     ELSE IF ~verifyRequestSecret(r) THEN Reject(<<"Invalid secret">>)
     ELSE IF ~determineRepoName(r).ok THEN Reject(determineRepoName(r).err)
     ELSE LET repoName == determineRepoName(r).name
              taskKey == TaskKey(repoName, r.round)
          IN  /\ repoTracking' = TrackRepo(r)
              /\ UNCHANGED <<platform, workdir, alone>>
              /\ IF Has(processedTasks, taskKey)
                 THEN /\ answered' = Append(answered, Answer("duplicate", 200, taskKey, {}))
                      /\ UNCHANGED <<processedTasks, tasks>>
                 ELSE /\ processedTasks' =
                           MapSet(processedTasks, taskKey, Entry("processing", "", 0))
                      /\ tasks' = Append(tasks, NewTask(r, repoName))
                      /\ answered' =
                           Append(answered,
                                  Answer("accepted", 200, taskKey,
                                         InFlight(NewTask(r, repoName))))

\* a request arrives
HandleTask(r) ==
  /\ Len(answered) < MaxRequests
  /\ handleTask(r)
  /\ UNCHANGED received

(***************************************************************************)
(* TaskHandler.processTaskAsync and the GitHubManager calls it awaits      *)
(***************************************************************************)
RunningUnlessOtherWaits ==
  {t \in 1..Len(tasks) : \A u \in 1..Len(tasks) \ {t} : tasks[u].waited = 0}

\* the background tasks: each is a chain of promise continuations of the one
\* event loop, and each wait is a timer (await new Promise(setTimeout)),
\* which returns control to the loop
Running == 1..Len(tasks)

\* the task goes on: its record changes, the tables do not
Goto(t, rec) ==
  /\ tasks' = [tasks EXCEPT ![t] = rec]
  /\ UNCHANGED <<processedTasks, repoTracking, answered, received, alone>>

\* the task is over: the locals of the calls it was in are gone
Ended(rec, pc) ==
  [rec EXCEPT !.pc = pc, !.attempt = 0, !.waited = 0, !.seen = "none",
              !.pushed = 0, !.cloned = 0]

ThrowUnrecorded(t, rec, msg) ==
  /\ tasks' = [tasks EXCEPT ![t] = Ended(rec, "failed")]
  /\ UNCHANGED <<processedTasks, repoTracking, answered, received, alone>>

ThrowWithoutMessage(t, rec, msg) ==
  /\ tasks' = [tasks EXCEPT ![t] = Ended(rec, "failed")]
  /\ processedTasks' =
       MapSet(processedTasks, TaskKey(rec.task, rec.round), Entry("failed", "", 0))
  /\ UNCHANGED <<repoTracking, answered, received, alone>>

ThrowForgets(t, rec, msg) ==
  /\ tasks' = [tasks EXCEPT ![t] = Ended(rec, "failed")]
  /\ processedTasks' =
       [k \in DOMAIN processedTasks \ {TaskKey(rec.task, rec.round)} |-> processedTasks[k]]
  /\ UNCHANGED <<repoTracking, answered, received, alone>>

ThrowUntracks(t, rec, msg) ==
  /\ tasks' = [tasks EXCEPT ![t] = Ended(rec, "failed")]
  /\ processedTasks' =
       MapSet(processedTasks, TaskKey(rec.task, rec.round), Entry("failed", msg, 0))
  /\ repoTracking' =
       [e \in DOMAIN repoTracking \ {rec.email} |-> repoTracking[e]]
  /\ UNCHANGED <<answered, received, alone>>

\* an exception leaves processTaskAsync: handleTask's catch records 'failed'
Throw(t, rec, msg) ==
  /\ tasks' = [tasks EXCEPT ![t] = Ended(rec, "failed")]
  /\ processedTasks' =
       MapSet(processedTasks, TaskKey(rec.task, rec.round), Entry("failed", msg, 0))
  /\ UNCHANGED <<repoTracking, answered, received, alone>>

\* generateApplication returns: the generated page, or the fallback when the
\* LLM call fails or its text is not HTML.  Round 1 goes on to
\* createAndDeployRepo (repos.get), round 2 to updateRepo (clone).
Generate(t) ==
  /\ tasks[t].pc = "generate"
  /\ Goto(t, [tasks[t] EXCEPT
                !.repo = sanitizeRepoName(tasks[t].task),
                !.pc = IF tasks[t].round = 1 THEN "lookup" ELSE "clone"])
  /\ UNCHANGED <<platform, workdir>>

LookupCreatesOnError(t) ==
  LET me == tasks[t]
  IN  /\ me.pc = "lookup"
      /\ UNCHANGED <<platform, workdir>>
      /\ \/ /\ me.repo \in repos
            /\ Goto(t, [me EXCEPT !.pc = "populate"])
         \/ Goto(t, [me EXCEPT !.pc = "create"])

\* createGitHubRepo, the answer of repos.get: the repository (reused), 404
\* (the create request follows), or another error (rethrown)
Lookup(t) ==
  LET me == tasks[t]
  IN  /\ me.pc = "lookup"
      /\ UNCHANGED <<platform, workdir>>
      /\ \/ /\ me.repo \in repos
            /\ Goto(t, [me EXCEPT !.pc = "populate"])
         \/ /\ me.repo \notin repos
            /\ Goto(t, [me EXCEPT !.pc = "create"])
         \/ Throw(t, me, "lookup failed")

\* createGitHubRepo, the answer of repos.createForAuthenticatedUser
Create(t) ==
  LET me == tasks[t]
  IN  /\ me.pc = "create"
      /\ \/ /\ me.repo \notin repos
            /\ me.repo # <<>>
            /\ repos' = repos \cup {me.repo}
            /\ UNCHANGED <<head, pages, live, tree, workdir>>
            /\ Goto(t, [me EXCEPT !.pc = "populate"])
         \/ /\ UNCHANGED <<platform, workdir>>
            /\ Throw(t, me, "create failed")

\* cloneAndPopulateRepo, lines 330-341: a directory left at the path is
\* removed, then an empty one is made and initialised
Populate(t) ==
  LET me == tasks[t]
  IN  /\ me.pc = "populate"
      /\ UNCHANGED platform
      /\ workdir' = [workdir EXCEPT ![me.repo] = FreshDir]
      /\ Goto(t, [me EXCEPT !.pc = "write"])

CloneCreatesMissing(t) ==
  LET me == tasks[t]
      cloned == [exists |-> TRUE, files |-> tree[me.repo],
                 log |-> IF head[me.repo] = 0 THEN <<>> ELSE <<head[me.repo]>>,
                 commit |-> tree[me.repo], origin |-> TRUE]
  IN  /\ me.pc = "clone"
      /\ \/ /\ me.repo \in repos
            /\ UNCHANGED platform
            /\ workdir' = [workdir EXCEPT ![me.repo] = cloned]
            /\ Goto(t, [me EXCEPT !.pc = "write", !.cloned = head[me.repo]])
         \/ /\ me.repo \notin repos
            /\ repos' = repos \cup {me.repo}
            /\ UNCHANGED <<head, pages, live, tree>>
            /\ workdir' = [workdir EXCEPT ![me.repo] = cloned]
            /\ Goto(t, [me EXCEPT !.pc = "write", !.cloned = head[me.repo]])
         \/ /\ UNCHANGED platform
            /\ workdir' = [workdir EXCEPT ![me.repo] = NoDir]
            /\ Throw(t, me, "clone failed")

\* updateRepo, lines 184-206: a directory left at the path is removed, then
\* the repository is cloned into it: the files and the history of the
\* default branch, with the remote configured.  A failed clone leaves no
\* directory.  With the empty name the path is reposDir itself
\* (path.join(reposDir, '')): every working copy is removed with it.
Clone(t) ==
  LET me == tasks[t]
      cloned == [exists |-> TRUE, files |-> tree[me.repo],
                 log |-> IF head[me.repo] = 0 THEN <<>> ELSE <<head[me.repo]>>,
                 commit |-> tree[me.repo], origin |-> TRUE]
  IN  /\ me.pc = "clone"
      /\ UNCHANGED platform
      /\ \/ /\ me.repo \in repos
            /\ workdir' = [workdir EXCEPT ![me.repo] = cloned]
            /\ Goto(t, [me EXCEPT !.pc = "write", !.cloned = head[me.repo]])
         \/ /\ workdir' = IF me.repo = <<>> THEN [n \in RepoNames |-> NoDir]
                           ELSE [workdir EXCEPT ![me.repo] = NoDir]
            /\ Throw(t, me, "clone failed")

\* the loops of fs.writeFile of cloneAndPopulateRepo (344-348) and updateRepo
\* (209-213): the files of the set are written into the directory at the
\* path, whatever it holds by now; without a directory the write fails
Write(t) ==
  LET me == tasks[t]
      dir == workdir[me.repo]
  IN  /\ me.pc = "write"
      /\ UNCHANGED platform
      /\ IF dir.exists
         THEN /\ workdir' = [workdir EXCEPT ![me.repo].files =
                                WriteFiles(dir.files, generateApplication(t))]
              /\ Goto(t, [me EXCEPT !.pc = "commit"])
         ELSE /\ UNCHANGED workdir
              /\ Throw(t, me, "ENOENT")

\* cloneAndPopulateRepo, lines 350-362 (addRemote, add, commit, branch -M)
\* and updateRepo, lines 216-217 (add, commit), run in the directory at the
\* path, whatever it holds by now.  addRemote fails when the remote is
\* configured already.  The commit is the snapshot of the files in the
\* directory; when they are the files of the latest commit there is nothing
\* to commit, and the call either fails or leaves the history as it is.
Commit(t) ==
  LET me == tasks[t]
      dir == workdir[me.repo]
      remote == IF me.round = 1 THEN [dir EXCEPT !.origin = TRUE] ELSE dir
  IN  /\ me.pc = "commit"
      /\ UNCHANGED platform
      /\ IF ~dir.exists \/ (me.round = 1 /\ dir.origin)
         THEN /\ UNCHANGED workdir
              /\ Throw(t, me, "git failed")
         ELSE IF dir.files = dir.commit
         THEN /\ workdir' = [workdir EXCEPT ![me.repo] = remote]
              /\ \/ Throw(t, me, "nothing to commit")
                 \/ Goto(t, [me EXCEPT !.pc = "push", !.attempt = 1])
         ELSE /\ workdir' = [workdir EXCEPT ![me.repo] =
                                [remote EXCEPT !.log = Append(@, t),
                                               !.commit = dir.files]]
              /\ Goto(t, [me EXCEPT !.pc = "push", !.attempt = 1])

PushFourTimes(t) ==
  LET me == tasks[t]
      dir == workdir[me.repo]
  IN  /\ me.pc = "push"
      /\ \/ /\ dir.exists /\ dir.origin /\ dir.log # <<>>
            /\ me.round = 1 \/ head[me.repo] = 0 \/ head[me.repo] \in Commits(dir.log)
            /\ head' = [head EXCEPT ![me.repo] = dir.log[Len(dir.log)]]
            /\ tree' = [tree EXCEPT ![me.repo] = dir.commit]
            /\ UNCHANGED <<repos, pages, live, workdir>>
            /\ IF me.round = 1
               THEN Goto(t, [me EXCEPT !.pc = "activate", !.attempt = 0,
                                       !.waited = PagesReadyWaitMs,
                                       !.pushed = dir.log[Len(dir.log)]])
               ELSE Goto(t, [me EXCEPT !.pc = "getsha", !.attempt = 0, !.waited = 0,
                                       !.pushed = dir.log[Len(dir.log)],
                                       !.cloned = 0])
         \/ /\ UNCHANGED <<platform, workdir>>
            /\ IF me.attempt = maxPushAttempts + 1
               THEN Throw(t, me, "push failed")
               ELSE Goto(t, [me EXCEPT !.attempt = @ + 1,
                                       !.waited = @ + PushBackoffMs * me.attempt])

\* the push loops of cloneAndPopulateRepo (forced) and updateRepo (not
\* forced): the answer of one git push of the local branch of the directory
\* at the path.  A push needs a commit and the remote; a push that is not
\* forced is rejected unless the remote branch is part of the local history.
\* After the push createAndDeployRepo calls enableGitHubPages, which waits
\* 2 s before its request; updateRepo calls getLatestCommitSha.
Push(t) ==
  LET me == tasks[t]
      dir == workdir[me.repo]
  IN  /\ me.pc = "push"
      /\ \/ /\ dir.exists /\ dir.origin /\ dir.log # <<>>
            /\ me.round = 1 \/ head[me.repo] = 0 \/ head[me.repo] \in Commits(dir.log)
            /\ head' = [head EXCEPT ![me.repo] = dir.log[Len(dir.log)]]
            /\ tree' = [tree EXCEPT ![me.repo] = dir.commit]
            /\ UNCHANGED <<repos, pages, live, workdir>>
            /\ IF me.round = 1
               THEN Goto(t, [me EXCEPT !.pc = "activate", !.attempt = 0,
                                       !.waited = PagesReadyWaitMs,
                                       !.pushed = dir.log[Len(dir.log)]])
               ELSE Goto(t, [me EXCEPT !.pc = "getsha", !.attempt = 0, !.waited = 0,
                                       !.pushed = dir.log[Len(dir.log)],
                                       !.cloned = 0])
         \/ /\ UNCHANGED <<platform, workdir>>
            /\ IF me.attempt = maxPushAttempts
               THEN Throw(t, me, "push failed")
               ELSE Goto(t, [me EXCEPT !.attempt = @ + 1,
                                       !.waited = @ + PushBackoffMs * me.attempt])

enableGitHubPagesThrows(t) ==
  LET me == tasks[t]
  IN  /\ me.pc = "activate"
      /\ \/ /\ ~pages[me.repo]
            /\ pages' = [pages EXCEPT ![me.repo] = TRUE]
            /\ UNCHANGED <<repos, head, live, tree, workdir>>
            /\ Goto(t, [me EXCEPT !.pc = "innerpoll", !.attempt = 0, !.waited = 0,
                                  !.polls = @ + 1])
         \/ /\ pages[me.repo]
            /\ UNCHANGED <<platform, workdir>>
            /\ Goto(t, [me EXCEPT !.pc = "getsha", !.waited = 0])
         \/ /\ UNCHANGED <<platform, workdir>>
            /\ Throw(t, me, "createPagesSite failed")

enableGitHubPagesAlwaysPolls(t) ==
  LET me == tasks[t]
      polling == [me EXCEPT !.pc = "innerpoll", !.attempt = 0, !.waited = 0,
                            !.polls = @ + 1]
  IN  /\ me.pc = "activate"
      /\ \/ /\ ~pages[me.repo]
            /\ pages' = [pages EXCEPT ![me.repo] = TRUE]
            /\ UNCHANGED <<repos, head, live, tree, workdir>>
            /\ Goto(t, polling)
         \/ /\ pages[me.repo]
            /\ UNCHANGED <<platform, workdir>>
            /\ Goto(t, polling)
         \/ /\ UNCHANGED <<platform, workdir>>
            /\ Goto(t, [me EXCEPT !.pc = "getsha", !.waited = 0])

\* enableGitHubPages, the answer of repos.createPagesSite: after a success
\* it polls with the default budget; 409 and every other error are swallowed
enableGitHubPages(t) ==
  LET me == tasks[t]
  IN  /\ me.pc = "activate"
      /\ \/ /\ ~pages[me.repo]
            /\ pages' = [pages EXCEPT ![me.repo] = TRUE]
            /\ UNCHANGED <<repos, head, live, tree, workdir>>
            /\ Goto(t, [me EXCEPT !.pc = "innerpoll", !.attempt = 0, !.waited = 0,
                                  !.polls = @ + 1])
         \/ /\ pages[me.repo]
            /\ UNCHANGED <<platform, workdir>>
            /\ Goto(t, [me EXCEPT !.pc = "getsha", !.waited = 0])
         \/ /\ UNCHANGED <<platform, workdir>>
            /\ Goto(t, [me EXCEPT !.pc = "getsha", !.waited = 0])

\* getLatestCommitSha, the answer of repos.listCommits; then
\* waitForPagesDeployment(repoName, commitSha, 15) is called
getLatestCommitSha(t) ==
  LET me == tasks[t]
  IN  /\ me.pc = "getsha"
      /\ UNCHANGED <<platform, workdir>>
      /\ \/ /\ head[me.repo] # 0
            /\ Goto(t, [me EXCEPT !.pc = "poll", !.attempt = 0, !.waited = 0,
                                  !.polls = @ + 1, !.built = "none", !.seen = "none",
                                  !.commitSha = head[me.repo], !.pushed = 0])
         \/ Throw(t, me, "listCommits failed")

AfterPollSkipsBuffer(rec, result) ==
  IF rec.pc = "innerpoll" THEN [rec EXCEPT !.pc = "getsha", !.built = result]
  ELSE [rec EXCEPT !.pc = "notify", !.attempt = 1, !.seen = "none", !.waited = 0,
                   !.built = result]

\* where a task goes when waitForPagesDeployment returns `result`: the call
\* inside enableGitHubPages goes on to getLatestCommitSha, the call of
\* createAndDeployRepo and updateRepo to the buffer wait; `attempt` keeps the
\* number of status queries made until the next call starts
AfterPoll(rec, result) ==
  [rec EXCEPT !.pc = IF rec.pc = "innerpoll" THEN "getsha" ELSE "settle",
              !.built = result]

MissedOneMore(rec, answer) ==
  LET again == [rec EXCEPT !.attempt = @ + 1, !.waited = @ + PollIntervalMs,
                           !.seen = answer]
  IN  IF again.attempt <= MaxChecks THEN again
      ELSE [again EXCEPT !.pc = IF rec.pc = "innerpoll" THEN "getsha" ELSE "settle",
                         !.waited = @ + SafetyWaitMs, !.built = "false"]

MissedWithoutSafetyWait(rec, answer) ==
  LET again == [rec EXCEPT !.attempt = @ + 1, !.waited = @ + PollIntervalMs,
                           !.seen = answer]
  IN  IF again.attempt < MaxChecks THEN again
      ELSE AfterPoll(again, "false")

\* waitForPagesDeployment after a query that did not report 'built' (another
\* status, or the query failed): 5 s, then the next query, or after the last
\* one 15 s more and the result false
Missed(rec, answer) ==
  LET again == [rec EXCEPT !.attempt = @ + 1, !.waited = @ + PollIntervalMs,
                           !.seen = answer]
  IN  IF again.attempt < MaxChecks THEN again
      ELSE AfterPoll([again EXCEPT !.waited = @ + SafetyWaitMs], "false")

\* waitForPagesDeployment, the answer of one repos.getPages: 'built' once a
\* build has finished, another status while the latest commit is not built,
\* or a failure
waitForPagesDeployment(t) ==
  LET me == tasks[t]
  IN  /\ me.pc \in {"innerpoll", "poll"}
      /\ UNCHANGED <<platform, workdir>>
      /\ \/ /\ pages[me.repo]
            /\ live[me.repo] # 0
            /\ Goto(t, AfterPoll([me EXCEPT !.attempt = @ + 1, !.seen = "built",
                                            !.waited = @ + CdnWaitMs], "true"))
         \/ /\ pages[me.repo]
            /\ live[me.repo] # head[me.repo]
            /\ Goto(t, Missed(me, "building"))
         \/ Goto(t, Missed(me, "error"))

RECURSIVE Pow2(_)
\* Math.pow(2, n)
Pow2(n) == IF n = 0 THEN 1 ELSE 2 * Pow2(n - 1)

RetryDelayLinear(initialDelay, attempt) == initialDelay * attempt

\* delaySeconds = initialDelay * Math.pow(2, attempt - 1)
RetryDelay(initialDelay, attempt) == initialDelay * Pow2(attempt - 1)

\* the buffer wait at the end of createAndDeployRepo (10 s) and updateRepo
\* (20 s)
BufferMs(round) == IF round = 1 THEN Round1BufferMs ELSE Round2BufferMs

SettleFatal(t) ==
  LET me == tasks[t]
  IN  /\ me.pc = "settle"
      /\ UNCHANGED <<platform, workdir>>
      /\ IF me.built = "false"
         THEN Throw(t, me, "Pages deployment not confirmed")
         ELSE Goto(t, [me EXCEPT !.pc = "notify", !.attempt = 1, !.seen = "none",
                                 !.waited = BufferMs(me.round)])

SettleMarksCompleted(t) ==
  LET me == tasks[t]
  IN  /\ me.pc = "settle"
      /\ UNCHANGED <<platform, workdir, alone, received, repoTracking, answered>>
      /\ tasks' = [tasks EXCEPT ![t] = [me EXCEPT !.pc = "notify", !.attempt = 1,
                                                  !.seen = "none",
                                                  !.waited = BufferMs(me.round)]]
      /\ processedTasks' = MapSet(processedTasks, TaskKey(me.task, me.round),
                                  Entry("completed", "", me.commitSha))

completePayloadOfLatest(rec) ==
  [email |-> tasks[Len(tasks)].email, task |-> rec.task, round |-> rec.round,
   nonce |-> tasks[Len(tasks)].nonce, repo_url |-> RepoUrl(rec.repo),
   commit_sha |-> rec.commitSha, pages_url |-> PagesUrl(rec.repo)]

\* completePayload, from the locals of processTaskAsync and the result of
\* createAndDeployRepo or updateRepo
completePayload(rec) ==
  [email |-> rec.email, task |-> rec.task, round |-> rec.round,
   nonce |-> rec.nonce, repo_url |-> RepoUrl(rec.repo),
   commit_sha |-> rec.commitSha, pages_url |-> PagesUrl(rec.repo)]

\* the buffer wait is over: the result is returned, the payload built and
\* the first POST sent
Settle(t) ==
  LET me == tasks[t]
  IN  /\ me.pc = "settle"
      /\ UNCHANGED <<platform, workdir>>
      /\ Goto(t, [me EXCEPT !.pc = "notify", !.attempt = 1, !.seen = "none",
                            !.waited = BufferMs(me.round),
                            !.payload = completePayload(me)])

notifyOneAttemptLess(t) ==
  LET me == tasks[t]
      rec == [me EXCEPT !.posts = @ + 1]
      again(r) == IF me.attempt >= MaxRetries - 1
                  THEN Throw(t, r, "Failed after retries")
                  ELSE Goto(t, [r EXCEPT !.attempt = @ + 1,
                                  !.waited = @ + RetryDelay(InitialRetryDelay,
                                                            me.attempt) * 1000])
  IN  /\ me.pc = "notify"
      /\ UNCHANGED <<platform, workdir>>
      /\ \/ /\ tasks' = [tasks EXCEPT ![t] =
                          Ended([rec EXCEPT !.acks = @ + 1, !.oks = @ + 1], "completed")]
            /\ processedTasks' = MapSet(processedTasks, TaskKey(me.task, me.round),
                                        Entry("completed", "", me.commitSha))
            /\ UNCHANGED <<repoTracking, answered, received, alone>>
         \/ again([rec EXCEPT !.acks = @ + 1])
         \/ again(rec)

notifyAny2xx(t) ==
  LET me == tasks[t]
      rec == [me EXCEPT !.posts = @ + 1]
      again(r) == IF me.attempt = MaxRetries
                  THEN Throw(t, r, "Failed after retries")
                  ELSE Goto(t, [r EXCEPT !.attempt = @ + 1,
                                  !.waited = @ + RetryDelay(InitialRetryDelay,
                                                            me.attempt) * 1000])
      done(r) == /\ tasks' = [tasks EXCEPT ![t] = Ended(r, "completed")]
                 /\ processedTasks' = MapSet(processedTasks, TaskKey(me.task, me.round),
                                             Entry("completed", "", me.commitSha))
                 /\ UNCHANGED <<repoTracking, answered, received, alone>>
  IN  /\ me.pc = "notify"
      /\ UNCHANGED <<platform, workdir>>
      /\ \/ done([rec EXCEPT !.acks = @ + 1, !.oks = @ + 1])
         \/ done([rec EXCEPT !.acks = @ + 1])
         \/ again(rec)

\* notifyEvaluationServer under retryRequest, the answer of one axios.post:
\* only status 200 is a success; then the entry is set to 'completed'
notifyEvaluationServer(t) ==
  LET me == tasks[t]
      rec == [me EXCEPT !.posts = @ + 1]
      again(r) == IF me.attempt = MaxRetries
                  THEN Throw(t, r, "Failed after retries")
                  ELSE Goto(t, [r EXCEPT !.attempt = @ + 1,
                                  !.waited = @ + RetryDelay(InitialRetryDelay,
                                                            me.attempt) * 1000])
  IN  /\ me.pc = "notify"
      /\ UNCHANGED <<platform, workdir>>
      /\ \/ /\ tasks' = [tasks EXCEPT ![t] =
                          Ended([rec EXCEPT !.acks = @ + 1, !.oks = @ + 1], "completed")]
            /\ processedTasks' = MapSet(processedTasks, TaskKey(me.task, me.round),
                                        Entry("completed", "", me.commitSha))
            /\ UNCHANGED <<repoTracking, answered, received, alone>>
         \/ again([rec EXCEPT !.acks = @ + 1])
         \/ again(rec)

\* the platform finishes a build of the default branch
PagesBuild(n) ==
  /\ pages[n]
  /\ head[n] # 0
  /\ live[n] # head[n]
  /\ live' = [live EXCEPT ![n] = head[n]]
  /\ UNCHANGED <<processedTasks, repoTracking, tasks, answered, repos, head, pages, tree,
               workdir, received, alone>>

Next ==
  \/ \E r \in Requests : HandleTask(r)
  \/ \E t \in Running : Generate(t)
  \/ \E t \in Running : Lookup(t)
  \/ \E t \in Running : Create(t)
  \/ \E t \in Running : Populate(t)
  \/ \E t \in Running : Clone(t)
  \/ \E t \in Running : Write(t)
  \/ \E t \in Running : Commit(t)
  \/ \E t \in Running : Push(t)
  \/ \E t \in Running : enableGitHubPages(t)
  \/ \E t \in Running : getLatestCommitSha(t)
  \/ \E t \in Running : waitForPagesDeployment(t)
  \/ \E t \in Running : Settle(t)
  \/ \E t \in Running : notifyEvaluationServer(t)
  \/ \E n \in RepoNames : PagesBuild(n)

Spec == Init /\ [][Next]_vars

(***************************************************************************)
(* retryRequest on its own, for every maxRetries and initialDelay up to    *)
(* the bounds and an operation that answers as it likes                    *)
(***************************************************************************)
\* the largest maxRetries tried
MaxRetryArg == 4
\* the values of initialDelay tried (seconds)
Delays == 1..3
\* what requestFn may return
OpValues == {"v1", "v2"}

RetryInit ==
  /\ Boot
  /\ retry \in [maxRetries : 0..MaxRetryArg, initialDelay : Delays, attempt : {1},
                calls : {0}, slept : {0}, answer : {"none"}, result : {"running"},
                value : {"none"}]
  /\ canon = NoCanon
  /\ gen = NoGen
  /\ received = <<>>

\* one pass of the loop: requestFn is called; its value is returned, or it
\* fails and the loop sleeps and goes on, or after the last attempt breaks
\* and the error is thrown
retryRequest ==
  /\ retry.result = "running"
  /\ retry.attempt <= retry.maxRetries
  /\ \/ \E v \in OpValues :
          retry' = [retry EXCEPT !.calls = @ + 1, !.answer = v,
                                 !.result = "returned", !.value = v]
     \/ /\ retry.attempt = retry.maxRetries
        /\ retry' = [retry EXCEPT !.calls = @ + 1, !.answer = "error",
                                  !.result = "raised"]
     \/ /\ retry.attempt < retry.maxRetries
        /\ retry' = [retry EXCEPT !.calls = @ + 1, !.answer = "error",
                                  !.attempt = @ + 1,
                                  !.slept = @ + RetryDelay(retry.initialDelay,
                                                           retry.attempt)]
  /\ UNCHANGED <<processedTasks, repoTracking, tasks, answered, platform, workdir, canon, gen, received>>

\* the loop is not entered (maxRetries is 0): building the message of the
\* final error fails, and that error is thrown
retryRequestNoAttempt ==
  /\ retry.result = "running"
  /\ retry.attempt > retry.maxRetries
  /\ retry' = [retry EXCEPT !.result = "raised"]
  /\ UNCHANGED <<processedTasks, repoTracking, tasks, answered, platform, workdir, canon, gen, received>>

RetryNext ==
  \/ retryRequest
  \/ retryRequestNoAttempt

RetrySpec == RetryInit /\ [][RetryNext]_vars

(***************************************************************************)
(* sanitizeRepoName on its own, for every string up to MaxLen characters   *)
(* of an alphabet with a lower-case and an upper-case letter, a digit, the *)
(* dash, and two characters outside [A-Za-z0-9-]                           *)
(***************************************************************************)
\* the longest task name tried
MaxLen == 4
Chars == {"a", "A", "0", "-", "!", " "}
\* the strings of at most n characters
Strings(n) == UNION {[1..k -> Chars] : k \in 0..n}

CanonInit ==
  /\ Boot
  /\ retry = NoCall
  /\ canon \in [taskName : Strings(MaxLen), calls : {0}, once : {<<>>},
                 twice : {<<>>}]
  /\ gen = NoGen
  /\ received = <<>>

\* the function is applied to the string
SanitizeOnce ==
  /\ canon.calls = 0
  /\ canon' = [canon EXCEPT !.calls = 1, !.once = sanitizeRepoName(canon.taskName)]
  /\ UNCHANGED <<processedTasks, repoTracking, tasks, answered, platform, workdir, retry, gen, received>>

\* the function is applied to its own result
SanitizeTwice ==
  /\ canon.calls = 1
  /\ canon' = [canon EXCEPT !.calls = 2, !.twice = sanitizeRepoName(canon.once)]
  /\ UNCHANGED <<processedTasks, repoTracking, tasks, answered, platform, workdir, retry, gen, received>>

CanonNext ==
  \/ SanitizeOnce
  \/ SanitizeTwice

CanonSpec == CanonInit /\ [][CanonNext]_vars

(***************************************************************************)
(* generateApplication on its own, for every task name and every answer of *)
(* the LLM call.  A text the model returns is described by what parseHTML  *)
(* looks at: the code fence around it, the markup it holds, how it ends.   *)
(* The request is typed as a TaskRequest: its brief is a string, its       *)
(* checks and attachments are lists, so that brief.substring, checks.map   *)
(* and the template literals of the function do not throw.                 *)
(***************************************************************************)
Texts ==
  [fence : {"none", "html", "plain"},     \* no fence, ```html, ```
   markup : {"doctype", "html", "prose"}, \* holds <!DOCTYPE, <html, neither
   ending : {"html", "body", "open"}]     \* ends with </html>; holds </body>
                                          \* but not the end tag; neither
\* llmClient.generateCode throws
LlmError == [fence |-> "none", markup |-> "none", ending |-> "none"]
LlmAnswers == Texts \cup {LlmError}

\* parseHTML: the page it returns (the text inside the fence, with the end
\* tag added after a </body> that lacks it), or the error it throws
parseHTML(response) ==
  IF response.markup = "prose"
  THEN [ok |-> FALSE, page |-> <<>>]
  ELSE [ok |-> TRUE,
        page |-> <<response.markup,
                   IF response.ending = "body" THEN "html" ELSE response.ending>>]

\* the files generateFallback returns
generateFallback(task) ==
  [p \in Generated |->
     IF p = "index.html" THEN <<"fallback", task>>
     ELSE IF p = "LICENSE" THEN <<"MIT">>
     ELSE <<"readme", task>>]

FilesUncaught(task, answer) ==
  IF answer = LlmError \/ ~parseHTML(answer).ok
  THEN [result |-> "raised", files |-> <<>>]
  ELSE [result |-> "returned",
        files |-> [p \in Generated |->
                     IF p = "index.html" THEN parseHTML(answer).page
                     ELSE IF p = "LICENSE" THEN <<"MIT">>
                     ELSE <<"readme", task>>]]

\* generateApplication for a request with that task name, after the LLM
\* call has answered: the files of the try block, or of the catch block
\* when the call or parseHTML throws
Files(task, answer) ==
  IF answer = LlmError \/ ~parseHTML(answer).ok
  THEN [result |-> "returned", files |-> generateFallback(task)]
  ELSE [result |-> "returned",
        files |-> [p \in Generated |->
                     IF p = "index.html" THEN parseHTML(answer).page
                     ELSE IF p = "LICENSE" THEN <<"MIT">>
                     ELSE <<"readme", task>>]]

GenInit ==
  /\ Boot
  /\ retry = NoCall
  /\ canon = NoCanon
  /\ received = <<>>
  /\ gen \in [task : TaskNames, answer : {NoAnswer}, result : {"running"},
               files : {<<>>}]

\* the LLM call answers and generateApplication returns or throws
GenerateAlone ==
  /\ gen.result = "running"
  /\ \E answer \in LlmAnswers :
       gen' = [gen EXCEPT !.answer = answer,
                          !.result = Files(gen.task, answer).result,
                          !.files = Files(gen.task, answer).files]
  /\ UNCHANGED <<processedTasks, repoTracking, tasks, answered, platform, workdir,
                 retry, canon, received>>

GenNext == GenerateAlone

GenSpec == GenInit /\ [][GenNext]_vars

(***************************************************************************)
(* handleTask on its own: more requests than above, each recorded, while   *)
(* the tasks they start wait for their first call                          *)
(***************************************************************************)
\* number of requests the handler receives on its own
MaxHandled == 4

\* the requests that pass validateRequest and carry a name without
\* whitespace or none
HandlerRequests ==
  {r \in Requests : validateRequest(r) = "ok" /\ r.task # <<" ">>}

HandleRecorded(r) ==
  /\ Len(answered) < MaxHandled
  /\ handleTask(r)
  /\ received' = Append(received, r)

HandlerNext == \E r \in HandlerRequests : HandleRecorded(r)

HandlerSpec == Init /\ [][HandlerNext]_vars

(***************************************************************************)
(* The server with requests that differ in their nonce: one requester, one *)
(* repository name, each request recorded                                  *)
(***************************************************************************)
PayloadRequests ==
  [email : {"u1@x.io"}, secret : {"good"}, task : {<<>>, <<"A">>}, round : {1, 2},
   nonce : Nonces, complete : {TRUE}]

HandleNonce(r) ==
  /\ Len(answered) < MaxRequests
  /\ handleTask(r)
  /\ received' = Append(received, r)

PayloadNext ==
  \/ \E r \in PayloadRequests : HandleNonce(r)
  \/ \E t \in Running : Generate(t)
  \/ \E t \in Running : Lookup(t)
  \/ \E t \in Running : Create(t)
  \/ \E t \in Running : Populate(t)
  \/ \E t \in Running : Clone(t)
  \/ \E t \in Running : Write(t)
  \/ \E t \in Running : Commit(t)
  \/ \E t \in Running : Push(t)
  \/ \E t \in Running : enableGitHubPages(t)
  \/ \E t \in Running : getLatestCommitSha(t)
  \/ \E t \in Running : waitForPagesDeployment(t)
  \/ \E t \in Running : Settle(t)
  \/ \E t \in Running : notifyEvaluationServer(t)
  \/ \E n \in RepoNames : PagesBuild(n)

PayloadSpec == Init /\ [][PayloadNext]_vars

(***************************************************************************)
(* The server with a task name made of punctuation only: one requester,    *)
(* the names "!" and "a"                                                   *)
(***************************************************************************)
PunctRequests ==
  [email : {"u1@x.io"}, secret : {"good"}, task : {<<"!">>, <<"a">>},
   round : {1, 2}, nonce : {"n1"}, complete : {TRUE}]

PunctNext ==
  \/ \E r \in PunctRequests : HandleTask(r)
  \/ \E t \in Running : Generate(t)
  \/ \E t \in Running : Lookup(t)
  \/ \E t \in Running : Create(t)
  \/ \E t \in Running : Populate(t)
  \/ \E t \in Running : Clone(t)
  \/ \E t \in Running : Write(t)
  \/ \E t \in Running : Commit(t)
  \/ \E t \in Running : Push(t)
  \/ \E t \in Running : enableGitHubPages(t)
  \/ \E t \in Running : getLatestCommitSha(t)
  \/ \E t \in Running : waitForPagesDeployment(t)
  \/ \E t \in Running : Settle(t)
  \/ \E t \in Running : notifyEvaluationServer(t)
  \/ \E n \in RepoNames : PagesBuild(n)

PunctSpec == Init /\ [][PunctNext]_vars

(***************************************************************************)
(* The server with task names that differ in case only: one requester, the *)
(* names "a" and "A"                                                       *)
(***************************************************************************)
CaseRequests ==
  [email : {"u1@x.io"}, secret : {"good"}, task : {<<"a">>, <<"A">>},
   round : {1, 2}, nonce : {"n1"}, complete : {TRUE}]

CaseNext ==
  \/ \E r \in CaseRequests : HandleTask(r)
  \/ \E t \in Running : Generate(t)
  \/ \E t \in Running : Lookup(t)
  \/ \E t \in Running : Create(t)
  \/ \E t \in Running : Populate(t)
  \/ \E t \in Running : Clone(t)
  \/ \E t \in Running : Write(t)
  \/ \E t \in Running : Commit(t)
  \/ \E t \in Running : Push(t)
  \/ \E t \in Running : enableGitHubPages(t)
  \/ \E t \in Running : getLatestCommitSha(t)
  \/ \E t \in Running : waitForPagesDeployment(t)
  \/ \E t \in Running : Settle(t)
  \/ \E t \in Running : notifyEvaluationServer(t)
  \/ \E n \in RepoNames : PagesBuild(n)

CaseSpec == Init /\ [][CaseNext]_vars

\* one step of background task t
TaskStep(t) ==
  /\ t \in Running
  /\ \/ Generate(t)
     \/ Lookup(t)
     \/ Create(t)
     \/ Populate(t)
     \/ Clone(t)
     \/ Write(t)
     \/ Commit(t)
     \/ Push(t)
     \/ enableGitHubPages(t)
     \/ getLatestCommitSha(t)
     \/ waitForPagesDeployment(t)
     \/ Settle(t)
     \/ notifyEvaluationServer(t)

\* the requests of one requester for one repository
LiveRequests == {r \in Requests : r.email # "u2@x.io" /\ r.task # <<"A">>}

LiveNext ==
  \/ \E r \in LiveRequests : HandleTask(r)
  \/ \E t \in Running : Generate(t)
  \/ \E t \in Running : Lookup(t)
  \/ \E t \in Running : Create(t)
  \/ \E t \in Running : Populate(t)
  \/ \E t \in Running : Clone(t)
  \/ \E t \in Running : Write(t)
  \/ \E t \in Running : Commit(t)
  \/ \E t \in Running : Push(t)
  \/ \E t \in Running : enableGitHubPages(t)
  \/ \E t \in Running : getLatestCommitSha(t)
  \/ \E t \in Running : waitForPagesDeployment(t)
  \/ \E t \in Running : Settle(t)
  \/ \E t \in Running : notifyEvaluationServer(t)
  \/ \E n \in RepoNames : PagesBuild(n)

\* every call a task waits for returns or fails, every timer fires, and the
\* event loop then runs the task's continuation
FairSpec == Init /\ [][LiveNext]_vars /\ \A t \in 1..MaxRequests : WF_vars(TaskStep(t))

\* the server with one requester and one repository, two requests
DuoSpec == Init /\ [][LiveNext]_vars

(***************************************************************************)
(* The server with one request: one task against the platform, which holds *)
(* no repository or one from an earlier run                                *)
(***************************************************************************)
MaxSolo == 1

HandleSolo(r) ==
  /\ Len(answered) < MaxSolo
  /\ handleTask(r)
  /\ UNCHANGED received

SoloNext ==
  \/ \E r \in LiveRequests : HandleSolo(r)
  \/ \E t \in Running : Generate(t)
  \/ \E t \in Running : Lookup(t)
  \/ \E t \in Running : Create(t)
  \/ \E t \in Running : Populate(t)
  \/ \E t \in Running : Clone(t)
  \/ \E t \in Running : Write(t)
  \/ \E t \in Running : Commit(t)
  \/ \E t \in Running : Push(t)
  \/ \E t \in Running : enableGitHubPages(t)
  \/ \E t \in Running : getLatestCommitSha(t)
  \/ \E t \in Running : waitForPagesDeployment(t)
  \/ \E t \in Running : Settle(t)
  \/ \E t \in Running : notifyEvaluationServer(t)
  \/ \E n \in RepoNames : PagesBuild(n)

SoloSpec == Init /\ [][SoloNext]_vars

(***************************************************************************)
(* Properties                                                              *)
(***************************************************************************)
Keys == {TaskKey(n, rd) : n \in {m \in TaskNames : ~IsBlank(m)}, rd \in {1, 2}}

KeyOf(rec) == TaskKey(rec.task, rec.round)

\* the request goes past validation, the secret check and name resolution
Resolved(r) ==
  /\ validateRequest(r) = "ok"
  /\ verifyRequestSecret(r)
  /\ determineRepoName(r).ok

RequestKey(r) == TaskKey(determineRepoName(r).name, r.round)

\* the status of the entry of key k
Status(k) ==
  IF k \in DOMAIN processedTasks THEN processedTasks[k].status ELSE "absent"

\* C1: a valid, authenticated request whose (resolved name, round) key has an
\* entry in state 'processing' is answered 'duplicate'; the step starts no
\* background task, leaves the tracking table as it was and changes nothing
\* on the platform.
C1_DuplicateWhileProcessing ==
  [][Len(answered') > Len(answered) =>
       \A r \in Requests :
         ( /\ Resolved(r)
           /\ RequestKey(r) \in DOMAIN processedTasks
           /\ processedTasks[RequestKey(r)].status = "processing"
           /\ HandleTask(r) )
         => ( /\ answered'[Len(answered')] = Answer("duplicate", 200, RequestKey(r), {})
              /\ tasks' = tasks
              /\ processedTasks' = processedTasks
              /\ platform' = platform )]_vars

\* a request was answered 'duplicate' while the entry of its key is 'processing'
C1_Witness ==
  \E i \in DOMAIN answered :
    /\ answered[i].status = "duplicate"
    /\ processedTasks[answered[i].key].status = "processing"

\* C2: of the requests that resolve to one key, exactly one is answered
\* 'accepted' and all the others 'duplicate', and at most one background
\* task exists for the key.
C2_OneAcceptedPerKey ==
  \A k \in Keys :
    LET all == {i \in DOMAIN answered : answered[i].key = k}
        acc == {i \in all : answered[i].status = "accepted"}
        dup == {i \in all : answered[i].status = "duplicate"}
        run == {t \in Running : KeyOf(tasks[t]) = k}
    IN  /\ all # {} => Cardinality(acc) = 1
        /\ Cardinality(dup) = Cardinality(all) - Cardinality(acc)
        /\ Cardinality(run) = Cardinality(acc)
        /\ Cardinality(run) <= 1

\* several requests of one key were answered
C2_Witness ==
  \E i, j \in DOMAIN answered :
    /\ i < j
    /\ answered[i].key = answered[j].key
    /\ answered[i].status = "accepted"
    /\ answered[j].status = "duplicate"


\* C3: the entry of every accepted request eventually leaves 'processing' and
\* is 'completed' or 'failed', when every call returns or fails and every
\* timer fires.
C3_EventuallySettled ==
  \A k \in Keys :
    (Status(k) = "processing") ~> (Status(k) \in {"completed", "failed"})

\* an entry has left 'processing'
C3_Witness ==
  \E k \in Keys : Status(k) \in {"completed", "failed"}

\* a task has taken a step
Stepped(t) == tasks'[t] # tasks[t]

\* the steps of a round-1 task: 1 file set, 2 ensureRepository, 3 publish,
\* 4 activateStaticHosting, 5 awaitLiveDeployment (after the commit hash is
\* read), 6 settle wait, 7 notification, 8 done
Round1Step(pc) ==
  CASE pc = "generate" -> 1
    [] pc \in {"lookup", "create"} -> 2
    [] pc \in {"populate", "write", "commit", "push"} -> 3
    [] pc \in {"activate", "innerpoll"} -> 4
    [] pc \in {"getsha", "poll"} -> 5
    [] pc = "settle" -> 6
    [] pc = "notify" -> 7
    [] pc = "completed" -> 8
    [] OTHER -> 0

\* C4: a round-1 task takes its steps in the order file set, ensureRepository,
\* publish, activateStaticHosting, awaitLiveDeployment, settle wait of 10 s,
\* notification: it moves from a step only to the next one (or fails), it
\* leaves publish only when a push of the local branch has succeeded, and a
\* POST is sent only after the settle wait.
C4_Round1Order ==
  [][\A t \in Running :
       tasks[t].round = 1 =>
         /\ \/ tasks'[t].pc = "failed"
            \/ Round1Step(tasks'[t].pc) = Round1Step(tasks[t].pc)
            \/ Round1Step(tasks'[t].pc) = Round1Step(tasks[t].pc) + 1
         /\ tasks[t].pc = "failed" => tasks'[t].pc = "failed"
         /\ (tasks[t].pc = "push" /\ tasks'[t].pc \notin {"push", "failed"})
              => /\ tasks'[t].pc = "activate"
                 /\ head'[tasks[t].repo] \in Commits(workdir[tasks[t].repo].log)
                 /\ tree'[tasks[t].repo] = workdir[tasks[t].repo].commit
         /\ (tasks[t].pc # "notify" /\ tasks'[t].pc = "notify")
              => tasks[t].pc = "settle" /\ tasks'[t].waited = Round1BufferMs
         /\ tasks'[t].posts # tasks[t].posts => tasks[t].pc = "notify"]_vars

\* a round-1 task went through every step
C4_Witness ==
  \E t \in Running : tasks[t].round = 1 /\ tasks[t].pc = "completed"

\* C5 as claimed: a round-1 task runs the polling protocol exactly once, and
\* never inside activateStaticHosting.
C5_PollsExactlyOnce ==
  \A t \in Running :
    tasks[t].round = 1 =>
      /\ tasks[t].pc # "innerpoll"
      /\ tasks[t].pc \in {"settle", "notify", "completed"} => tasks[t].polls = 1

\* C5 amended: a round-1 task runs the polling protocol once after
\* activateStaticHosting has returned, and once more inside
\* activateStaticHosting exactly when its activation request succeeded (not
\* after a conflict or another failure): once or twice in all.
C5_PollsOnceOrTwice ==
  [][\A t \in Running :
       tasks[t].round = 1 =>
         /\ (tasks[t].pc = "activate" /\ Stepped(t)) =>
              IF ~pages[tasks[t].repo] /\ pages'[tasks[t].repo]
              THEN tasks'[t].pc = "innerpoll" /\ tasks'[t].polls = 1
              ELSE tasks'[t].pc = "getsha" /\ tasks'[t].polls = 0
         /\ (tasks[t].pc = "innerpoll" /\ Stepped(t)) =>
              /\ tasks'[t].pc \in {"innerpoll", "getsha"}
              /\ tasks'[t].polls = 1
         /\ (tasks[t].pc = "getsha" /\ tasks'[t].pc = "poll") =>
              tasks'[t].polls = tasks[t].polls + 1
         /\ tasks'[t].pc \in {"poll", "settle", "notify", "completed"} =>
              tasks'[t].polls \in {1, 2}]_vars

\* a round-1 task polled twice
C5_Witness ==
  \E t \in Running :
    tasks[t].round = 1 /\ tasks[t].pc = "settle" /\ tasks[t].polls = 2

\* the steps of a round-2 task: 1 file set, 2 update, 3 awaitLiveDeployment
\* (after the commit hash is read), 4 settle wait, 5 notification, 6 done
Round2Step(pc) ==
  CASE pc = "generate" -> 1
    [] pc \in {"clone", "write", "commit", "push"} -> 2
    [] pc \in {"getsha", "poll"} -> 3
    [] pc = "settle" -> 4
    [] pc = "notify" -> 5
    [] pc = "completed" -> 6
    [] OTHER -> 0

\* C6: a round-2 task takes its steps in the order update,
\* awaitLiveDeployment, settle wait of 20 s, notification; it never looks up
\* or creates a repository and never requests activation, and when the
\* repository does not exist its clone fails and it ends 'failed' with
\* nothing created.
C6_Round2Order ==
  [][\A t \in Running :
       tasks[t].round = 2 =>
         /\ tasks'[t].pc \notin {"lookup", "create", "populate", "activate", "innerpoll"}
         /\ \/ tasks'[t].pc = "failed"
            \/ Round2Step(tasks'[t].pc) = Round2Step(tasks[t].pc)
            \/ Round2Step(tasks'[t].pc) = Round2Step(tasks[t].pc) + 1
         /\ tasks[t].pc = "failed" => tasks'[t].pc = "failed"
         /\ Stepped(t) => repos' = repos /\ pages' = pages
         /\ (tasks[t].pc = "clone" /\ tasks[t].repo \notin repos /\ Stepped(t))
              => /\ tasks'[t].pc = "failed"
                 /\ Status(KeyOf(tasks[t]))' = "failed"
         /\ (tasks[t].pc # "notify" /\ tasks'[t].pc = "notify")
              => tasks[t].pc = "settle" /\ tasks'[t].waited = Round2BufferMs
         /\ tasks'[t].posts # tasks[t].posts => tasks[t].pc = "notify"]_vars

\* a round-2 task went through every step
C6_Witness ==
  \E t \in Running : tasks[t].round = 2 /\ tasks[t].pc = "completed"

\* C7: when awaitLiveDeployment returns true, the finished build the platform
\* serves is the build of the commit this task pushed.
C7_BuiltIsOwnCommit ==
  [][\A t \in Running :
       (tasks[t].pc = "poll" /\ tasks'[t].pc = "settle" /\ tasks'[t].built = "true")
         => live[tasks[t].repo] = t]_vars

\* C8: awaitLiveDeployment makes at most maxChecks status queries, returns
\* true at the first one that reports 'built', returns false when the last
\* of maxChecks queries has not reported it, and never raises: a failed query
\* counts as a check and polling goes on.
C8_BoundedPolling ==
  [][\A t \in Running :
       (tasks[t].pc \in {"innerpoll", "poll"} /\ Stepped(t)) =>
         LET returned == tasks'[t].pc # tasks[t].pc
         IN  /\ tasks'[t].attempt = tasks[t].attempt + 1
             /\ tasks'[t].attempt <= MaxChecks
             /\ tasks'[t].pc # "failed"
             /\ tasks'[t].seen \in {"built", "building", "error"}
             /\ tasks'[t].seen = "built" => returned /\ tasks'[t].built = "true"
             /\ (tasks'[t].seen # "built" /\ tasks'[t].attempt < MaxChecks)
                  => ~returned
             /\ (tasks'[t].seen # "built" /\ tasks'[t].attempt = MaxChecks)
                  => returned /\ tasks'[t].built = "false"]_vars

\* awaitLiveDeployment returned false after maxChecks queries, the last failed
C8_Witness ==
  \E t \in Running :
    /\ tasks[t].pc = "settle"
    /\ tasks[t].built = "false"
    /\ tasks[t].seen = "error"
    /\ tasks[t].attempt = MaxChecks

\* C9: a false result of awaitLiveDeployment is not fatal: the task goes on
\* to its settle wait, then sends the notification, in both rounds.
C9_FalseIsNotFatal ==
  [][\A t \in Running :
       /\ (tasks[t].pc = "poll" /\ tasks'[t].built = "false" /\ Stepped(t))
            => tasks'[t].pc = "settle"
       /\ (tasks[t].pc = "settle" /\ tasks[t].built = "false" /\ Stepped(t))
            => /\ tasks'[t].pc = "notify"
               /\ tasks'[t].waited = BufferMs(tasks[t].round)
               /\ Status(KeyOf(tasks[t]))' = "processing"]_vars

\* a task of each round is 'completed' after awaitLiveDeployment returned false
C9_Witness ==
  \A rd \in {1, 2} :
    \E t \in Running :
      /\ tasks[t].round = rd
      /\ tasks[t].built = "false"
      /\ tasks[t].pc = "completed"
      /\ Status(KeyOf(tasks[t])) = "completed"

\* C10: activateStaticHosting never raises: whatever the platform answers
\* (success, the 409 conflict, another failure), and whatever its own polling
\* sees, the round-1 task goes on to read the commit hash and to poll.
C10_ActivationNeverRaises ==
  [][\A t \in Running :
       /\ (tasks[t].pc = "activate" /\ Stepped(t))
            => /\ tasks'[t].pc \in {"innerpoll", "getsha"}
               /\ Status(KeyOf(tasks[t]))' = "processing"
       /\ (tasks[t].pc = "innerpoll" /\ Stepped(t))
            => /\ tasks'[t].pc \in {"innerpoll", "getsha"}
               /\ Status(KeyOf(tasks[t]))' = "processing"]_vars

\* two round-1 tasks activated hosting for the same repository and both are
\* 'completed'
C10_Witness ==
  \E t, u \in Running :
    /\ t # u
    /\ tasks[t].repo = tasks[u].repo
    /\ tasks[t].round = 1 /\ tasks[u].round = 1
    /\ tasks[t].pc = "completed" /\ tasks[u].pc = "completed"
    /\ pages[tasks[t].repo]

\* C11: ensureRepository issues a create request if and only if the lookup
\* answered not-found: an existing repository is reused without a create
\* request, a lookup that fails otherwise makes the round-1 task end 'failed'
\* without a create request, and a repository is created only by the answer
\* of a create request.
C11_CreateIffNotFound ==
  [][/\ \A t \in Running :
          /\ (tasks[t].pc = "lookup" /\ Stepped(t)) =>
               /\ tasks'[t].pc \in {"populate", "create", "failed"}
               /\ tasks'[t].pc = "create" <=> tasks[t].repo \notin repos /\ tasks'[t].pc # "failed"
               /\ tasks'[t].pc = "populate" <=> tasks[t].repo \in repos /\ tasks'[t].pc # "failed"
               /\ tasks'[t].pc = "failed" => Status(KeyOf(tasks[t]))' = "failed"
               /\ repos' = repos
          /\ (tasks[t].pc # "create" /\ tasks'[t].pc = "create") => tasks[t].pc = "lookup"
     /\ repos' # repos =>
          \E t \in Running : tasks[t].pc = "create" /\ repos' = repos \cup {tasks[t].repo}]_vars

\* a round-1 task reuses a repository that existed before its lookup
C11_Witness ==
  \E t \in Running :
    /\ tasks[t].round = 1
    /\ tasks[t].pc = "populate"
    /\ head[tasks[t].repo] = OldCommit

\* the step of task t is a push that succeeded
Pushed(t) ==
  /\ tasks[t].pc = "push"
  /\ tasks'[t].pc \in {"activate", "getsha"}

\* C12: after a successful publish the remote default branch holds exactly
\* the published file set: each of its paths with its content and no other
\* file, whatever the branch held before and whatever was left in the local
\* directory.
C12_PublishedExactly ==
  [][\A t \in Running :
       (tasks[t].round = 1 /\ Pushed(t))
         => tree'[tasks[t].repo] = WriteFiles(EmptyTree, generateApplication(t))]_vars

\* C13: after a successful update with file set F of a repository whose
\* remote content was R, the remote content is R overridden by F: the paths
\* of F hold F's content and the other paths of R hold what they held.
C13_UpdateOverrides ==
  [][\A t \in Running :
       (tasks[t].round = 2 /\ Pushed(t))
         => tree'[tasks[t].repo] =
              WriteFiles(tree[tasks[t].repo], generateApplication(t))]_vars

\* C14: in publish and in update the push is attempted at most 3 times and
\* stops at the first success; after failed attempt k < 3 the task waits
\* 2 s * k and pushes again; after the third failure it waits no more, the
\* error leaves the task, the entry is 'failed' and no notification is sent.
C14_PushRetries ==
  [][\A t \in Running :
       LET me == tasks[t]
       IN  /\ me.pc = "push" =>
                /\ me.attempt \in 1..maxPushAttempts
                /\ 2 * me.waited = PushBackoffMs * me.attempt * (me.attempt - 1)
           /\ (me.pc = "push" /\ Stepped(t) /\ ~Pushed(t)) =>
                IF me.attempt < maxPushAttempts
                THEN /\ tasks'[t].pc = "push"
                     /\ tasks'[t].attempt = me.attempt + 1
                     /\ tasks'[t].waited = me.waited + PushBackoffMs * me.attempt
                     /\ Status(KeyOf(me))' = "processing"
                ELSE /\ tasks'[t].pc = "failed"
                     /\ tasks'[t].waited <= me.waited
                     /\ tasks'[t].posts = 0
                     /\ Status(KeyOf(me))' = "failed"
           /\ (me.pc = "push" /\ Pushed(t)) =>
                /\ platform' # platform \/ head[me.repo] \in Commits(workdir[me.repo].log)
                /\ tasks'[t].attempt = 0
           /\ me.pc = "failed" => tasks'[t] = me]_vars

\* a task of each round is about to push for the third time, after waiting
\* 2 s and 4 s
C14_Witness ==
  \A rd \in {1, 2} :
    \E t \in Running :
      /\ tasks[t].round = rd
      /\ tasks[t].pc = "push"
      /\ tasks[t].attempt = maxPushAttempts
      /\ tasks[t].waited = PushBackoffMs + 2 * PushBackoffMs

\* C15: when the operation fails its first k calls and succeeds on call
\* k + 1 (k < maxRetries), retryRequest returns the operation's value after
\* exactly k + 1 calls and a total sleep of initialDelay * (2^k - 1); when
\* the operation always fails, retryRequest raises after exactly maxRetries
\* calls, with no sleep after the last failure.
C15_RetryContract ==
  /\ retry.result = "running" => retry.calls = retry.attempt - 1
  /\ retry.result = "returned" =>
       /\ retry.calls \in 1..retry.maxRetries
       /\ retry.slept = retry.initialDelay * (Pow2(retry.calls - 1) - 1)
       /\ retry.value \in OpValues
       /\ retry.value = retry.answer
  /\ retry.result = "raised" =>
       /\ retry.calls = retry.maxRetries
       /\ retry.answer \in {"error", "none"}
       /\ retry.slept = IF retry.maxRetries = 0 THEN 0
                        ELSE retry.initialDelay * (Pow2(retry.maxRetries - 1) - 1)

\* the operation failed three times and succeeded on its fourth call
C15_Witness ==
  /\ retry.result = "returned"
  /\ retry.calls = 4
  /\ retry.slept = 7 * retry.initialDelay

\* C19: for every accepted request the acknowledgment is produced before
\* any outbound call of its background task is initiated.
C19_AckBeforeCalls ==
  \A i \in DOMAIN answered :
    answered[i].status = "accepted" => answered[i].started = {}

C17_CompletedOnlyAfterAck ==
  [][/\ \A k \in Keys :
          (Status(k)' = "completed" /\ Status(k) # "completed") =>
            \E t \in Running :
              /\ KeyOf(tasks[t]) = k
              /\ tasks[t].pc = "notify"
              /\ tasks'[t].pc = "completed"
              /\ tasks'[t].posts = tasks[t].posts + 1
              /\ tasks'[t].acks = tasks[t].acks + 1
     /\ \A t \in Running :
          /\ (tasks[t].pc # "completed" /\ tasks'[t].pc = "completed")
               => Status(KeyOf(tasks[t]))' = "completed"
          /\ (tasks[t].pc = "notify" /\ tasks'[t].pc = "failed") =>
               /\ tasks[t].attempt = MaxRetries
               /\ Status(KeyOf(tasks[t]))' = "failed"
               /\ platform' = platform
               /\ head[tasks[t].repo] # 0]_vars

\* the notifier gave up: the entry is 'failed' and the repository holds the
\* commit the task reported
C17_Witness ==
  \E t \in Running :
    /\ tasks[t].pc = "failed"
    /\ tasks[t].posts = MaxRetries
    /\ Status(KeyOf(tasks[t])) = "failed"
    /\ tasks[t].commitSha # 0
    /\ head[tasks[t].repo] = tasks[t].commitSha

\* the steps of a task before its notification
PreNotify ==
  {"generate", "lookup", "create", "populate", "clone", "write", "commit", "push",
   "activate", "innerpoll", "getsha", "poll", "settle"}

\* C18: when a step before the notification fails, no POST is ever sent for
\* the task, the entry becomes 'failed' with the error message, and nothing
\* is reported to a caller.
C18_FailureBeforeNotify ==
  [][\A t \in Running :
       LET me == tasks[t]
       IN  /\ (me.pc \in PreNotify /\ tasks'[t].pc = "failed") =>
                /\ tasks'[t].posts = 0
                /\ Status(KeyOf(me))' = "failed"
                /\ processedTasks'[KeyOf(me)].error # ""
                /\ answered' = answered
           /\ me.pc \in PreNotify => me.posts = 0
           /\ me.pc = "failed" =>
                /\ tasks'[t] = me
                /\ Status(KeyOf(me))' = "failed"]_vars

\* a task failed at its third push, before its notification: no POST was
\* sent and the entry holds the error
C18_Witness ==
  \E t \in Running :
    /\ tasks[t].pc = "failed"
    /\ tasks[t].posts = 0
    /\ Status(KeyOf(tasks[t])) = "failed"
    /\ processedTasks[KeyOf(tasks[t])].error = "push failed"

\* task t is suspended in a backoff delay, a poll interval or a settle wait
Suspended(t) ==
  /\ tasks[t].pc \in {"push", "innerpoll", "poll", "settle", "notify"}
  /\ tasks[t].waited > 0

\* C20: while a background task is suspended in a backoff delay, a poll
\* interval or a settle wait, a new request can be handled and every other
\* background task that has not ended can take its next step.
C20_WaitsDoNotBlock ==
  \A t \in DOMAIN tasks :
    Suspended(t) =>
      /\ Len(answered) < MaxRequests => ENABLED (\E r \in Requests : HandleTask(r))
      /\ \A u \in DOMAIN tasks \ {t} :
           tasks[u].pc \notin {"completed", "failed"} => ENABLED TaskStep(u)

\* one task is in its settle wait while another, in a push backoff, has yet
\* to take its next step
C20_Witness ==
  \E t, u \in DOMAIN tasks :
    /\ t # u
    /\ Suspended(t) /\ tasks[t].pc = "settle"
    /\ Suspended(u) /\ tasks[u].pc = "push"

(***************************************************************************)
(* C21                                                                     *)
(***************************************************************************)
\* ^[a-z0-9]([a-z0-9-]*[a-z0-9])?$
IsRepoNameShape(s) ==
  /\ Len(s) > 0
  /\ \A i \in 1..Len(s) : s[i] \in {"a", "b", "0", "-"}
  /\ s[1] # "-"
  /\ s[Len(s)] # "-"

\* C21: sanitizeRepoName yields, for every string, the empty string or a
\* string of lower-case letters, digits and dashes that neither starts nor
\* ends with a dash and has no two dashes in a row; applied to its own
\* result it returns that result.
C21_CanonIdempotent ==
  /\ canon.calls >= 1 =>
       /\ canon.once = <<>> \/ IsRepoNameShape(canon.once)
       /\ \A i \in 1..(Len(canon.once) - 1) :
            ~(canon.once[i] = "-" /\ canon.once[i + 1] = "-")
  /\ canon.calls = 2 => canon.twice = canon.once

\* a name with upper case, characters outside the class and dashes at both
\* ends has been sanitized twice
C21_Witness ==
  /\ canon.calls = 2
  /\ canon.taskName = <<"-", "A", "!", " ">>
  /\ canon.once = <<"a">>

(***************************************************************************)
(* C22                                                                     *)
(***************************************************************************)
\* the answer the step appends
NewAnswer == answered'[Len(answered')]

\* the step answers a request with an error and does nothing else
RejectedStep ==
  /\ Len(answered') = Len(answered) + 1
  /\ NewAnswer.http # 200
  /\ NewAnswer.status \notin {"accepted", "duplicate"}
  /\ NewAnswer.started = {}
  /\ UNCHANGED <<processedTasks, repoTracking, tasks, platform, workdir>>

\* C22: a round-1 request whose task name is empty or only whitespace is
\* answered with an error by the handler itself: no call has been started,
\* no entry is added to processedTasks and repoTracking is not written.
C22_BlankRound1Rejected ==
  [][Len(answered') > Len(answered) =>
       \A r \in Requests :
         (/\ r.round = 1
          /\ \A i \in 1..Len(r.task) : r.task[i] = " "
          /\ HandleTask(r)) => RejectedStep]_vars

\* a complete round-1 request with a good secret and a blank name has been
\* answered: the error is the one determineRepoName throws
C22_Witness ==
  /\ Len(answered) = 2
  /\ answered[1].status = "accepted"
  /\ answered[2].status = "Task name is required for Round 1"
  /\ answered[2].http = 500
  /\ Len(tasks) = 1
  /\ DOMAIN repoTracking = {tasks[1].email}

(***************************************************************************)
(* C23                                                                     *)
(***************************************************************************)
\* the positions of the round-1 requests of a requester, among the first n
\* received, that carried the right secret and a name
Round1Of(email, n) ==
  {j \in 1..n : /\ received[j].email = email
                /\ received[j].round = 1
                /\ received[j].secret = "good"
                /\ received[j].task # <<>>}

Latest(J) == CHOOSE j \in J : \A k \in J : k <= j

\* C23: a round-2 request with the right secret and an empty task name is
\* handled under the name of the latest earlier round-1 request of the same
\* requester that carried the right secret and a name, whether that request
\* was accepted or a duplicate; without such a request it is answered with
\* an error and starts nothing.  No round-2 request writes repoTracking.
C23_Round2Resolution ==
  [][Len(received') > Len(received) =>
       LET n == Len(received)
           r == received'[n + 1]
           J == Round1Of(r.email, n)
       IN  /\ (r.round = 2 /\ r.secret = "good" /\ r.task = <<>>) =>
                IF J = {}
                THEN /\ NewAnswer.status = "Cannot determine repository name for Round 2"
                     /\ NewAnswer.http = 500
                     /\ UNCHANGED <<processedTasks, tasks>>
                ELSE /\ NewAnswer.status \in {"accepted", "duplicate"}
                     /\ NewAnswer.key = TaskKey(received[Latest(J)].task, 2)
           /\ r.round = 2 => UNCHANGED repoTracking]_vars

\* a requester's round-1 requests for a, for A and again for a (a
\* duplicate), then the requester's round-2 request without a name: it is
\* handled as a
C23_Witness ==
  /\ Len(received) = 4
  /\ \A i \in 1..4 : received[i].email = "u1@x.io" /\ received[i].secret = "good"
  /\ received[1].task = <<"a">> /\ received[1].round = 1
  /\ received[2].task = <<"A">> /\ received[2].round = 1
  /\ received[3].task = <<"a">> /\ received[3].round = 1
  /\ answered[3].status = "duplicate"
  /\ received[4].task = <<>> /\ received[4].round = 2
  /\ answered[4].status = "accepted"
  /\ answered[4].key = TaskKey(<<"a">>, 2)

(***************************************************************************)
(* C24                                                                     *)
(***************************************************************************)
\* the request is one the handler rejects: a field is missing, the round is
\* not 1 or 2, the address is malformed, the secret is wrong, the name of a
\* round-1 request is blank, or the name of a round-2 request is blank and
\* the requester has no name on record
Rejectable(r) ==
  \/ ~r.complete
  \/ r.round \notin {1, 2}
  \/ r.email \in {BadEmail, SpacedEmail}
  \/ r.secret # "good"
  \/ /\ r.task \in {<<>>, <<" ">>}
     /\ r.round = 1 \/ r.email \notin DOMAIN repoTracking

\* C24: a request the handler rejects is answered with an error, and every
\* request answered with an error leaves processedTasks and repoTracking as
\* they were, starts no background task and no call, and changes nothing on
\* the platform or in the working directories.
C24_RejectionHasNoEffect ==
  [][Len(answered') > Len(answered) =>
       /\ NewAnswer.http # 200 => RejectedStep
       /\ NewAnswer.http = 200 =>
            \A r \in Requests : Rejectable(r) => ~HandleTask(r)]_vars

\* while a task is in progress, a round-2 request without a name of a
\* requester without a name on record has been rejected
C24_Witness ==
  /\ Len(answered) = 2
  /\ answered[1].status = "accepted"
  /\ answered[2].status = "Cannot determine repository name for Round 2"
  /\ Len(tasks) = 1
  /\ tasks[1].pc = "push"
  /\ DOMAIN processedTasks = {KeyOf(tasks[1])}

(***************************************************************************)
(* C25                                                                     *)
(***************************************************************************)
\* the request passes validateRequest and its secret is wrong
WrongSecret(r) ==
  /\ r.complete
  /\ r.round \in {1, 2}
  /\ r.email \in Emails
  /\ r.secret # "good"

\* C25: the answer to a request has status 401 exactly when the request
\* passed the validation of its fields and its secret is wrong; every other
\* error answer, the one that embeds the requester's address included, has
\* status 500, and an accepted or duplicate request is answered with 200.
C25_StatusCodes ==
  [][Len(answered') > Len(answered) =>
       /\ NewAnswer.http \in {200, 401, 500}
       /\ NewAnswer.http = 200 <=> NewAnswer.status \in {"accepted", "duplicate"}
       /\ NewAnswer.http = 401 => \A r \in Requests : HandleTask(r) => WrongSecret(r)
       /\ NewAnswer.http # 401 => \A r \in Requests : WrongSecret(r) => ~HandleTask(r)]_vars

\* a request with a wrong secret has been answered 401 and a round-2
\* request without a name, of a requester without a name on record, 500
C25_Witness ==
  /\ Len(answered) = 2
  /\ answered[1].status = "Invalid secret"
  /\ answered[1].http = 401
  /\ answered[2].status = "Cannot determine repository name for Round 2"
  /\ answered[2].http = 500

(***************************************************************************)
(* C26                                                                     *)
(***************************************************************************)
\* the position, among the requests received, of the one that started task t
StartedBy(t) ==
  CHOOSE i \in 1..Len(answered) :
    /\ answered[i].status = "accepted"
    /\ Cardinality({j \in 1..i : answered[j].status = "accepted"}) = t

\* the name the request at position i is handled under
NameOf(i) ==
  IF received[i].task # <<>> THEN received[i].task
  ELSE received[Latest(Round1Of(received[i].email, i - 1))].task

\* C26: the payload a task posts carries the email, round and nonce of the
\* request that started the task and the name that request was handled
\* under, the URL of the repository of the canonical name, the pages URL
\* https://{owner}.github.io/{canonical name}/ and the commit the task's
\* own call returned, which is a commit; no field is another request's.
C26_PayloadIsOwn ==
  \A t \in 1..Len(tasks) :
    LET p == tasks[t].payload
        r == received[StartedBy(t)]
    IN  /\ tasks[t].posts > 0 => p # NoPayload
        /\ p # NoPayload =>
             /\ p.email = r.email
             /\ p.round = r.round
             /\ p.nonce = r.nonce
             /\ p.task = NameOf(StartedBy(t))
             /\ p.repo_url = <<"https://github.com/", Owner, "/", sanitizeRepoName(p.task)>>
             /\ p.pages_url =
                  <<"https://", Owner, ".github.io/", sanitizeRepoName(p.task), "/">>
             /\ p.commit_sha = tasks[t].commitSha
             /\ p.commit_sha # 0

\* two tasks with different nonces have both posted their payloads; the
\* second was started by a round-2 request without a name
C26_Witness ==
  /\ Len(tasks) = 2
  /\ received[2].task = <<>>
  /\ tasks[1].posts > 0 /\ tasks[2].posts > 0
  /\ tasks[1].payload.nonce = "n2" /\ tasks[2].payload.nonce = "n1"
  /\ tasks[2].payload.task = <<"A">>
  /\ tasks[2].payload.pages_url = <<"https://", Owner, ".github.io/", <<"a">>, "/">>

(***************************************************************************)
(* C27                                                                     *)
(***************************************************************************)
\* C27: of two requests of the same round that were not rejected and whose
\* names have the same canonical form, the later one is answered
\* 'duplicate', and no two tasks are started for one canonical name and
\* round.
C27_CanonicalKey ==
  /\ \A i, j \in 1..Len(answered) :
       (/\ i < j
        /\ answered[i].http = 200 /\ answered[j].http = 200
        /\ answered[i].key[2] = answered[j].key[2]
        /\ sanitizeRepoName(answered[i].key[1]) = sanitizeRepoName(answered[j].key[1]))
       => answered[j].status = "duplicate"
  /\ \A t, u \in 1..Len(tasks) :
       (/\ tasks[t].round = tasks[u].round
        /\ sanitizeRepoName(tasks[t].task) = sanitizeRepoName(tasks[u].task))
       => t = u

(***************************************************************************)
(* C28                                                                     *)
(***************************************************************************)
\* C28: whatever the LLM call does (it fails, it returns a page, with or
\* without a code fence, or a text that is not HTML), generateApplication
\* returns, and what it returns has exactly the paths index.html, LICENSE
\* and README.md; after a failed call or a text that is not HTML the index
\* page is the fallback page.
C28_ThreeFilesAlways ==
  gen.answer # NoAnswer =>
    /\ gen.result = "returned"
    /\ DOMAIN gen.files = {"index.html", "LICENSE", "README.md"}
    /\ (gen.answer = LlmError \/ gen.answer.markup = "prose") =>
         gen.files["index.html"] = <<"fallback", gen.task>>

\* the LLM returned prose inside a code fence: the fallback is returned
C28_Witness ==
  /\ gen.answer \in Texts
  /\ gen.answer.fence = "plain"
  /\ gen.answer.markup = "prose"
  /\ gen.result = "returned"
  /\ gen.files["index.html"] = <<"fallback", gen.task>>

(***************************************************************************)
(* C29                                                                     *)
(***************************************************************************)
\* C29: an entry of processedTasks starts as 'processing', is never
\* removed, and changes only from 'processing' to 'completed' or to
\* 'failed'; a request whose key has an entry, whatever its status, is
\* answered 'duplicate' and starts no task, and no two tasks are ever
\* started for one key.
C29_EntriesAreFinal ==
  [][/\ \A k \in DOMAIN processedTasks :
          /\ k \in DOMAIN processedTasks'
          /\ processedTasks'[k] # processedTasks[k] =>
               /\ processedTasks[k].status = "processing"
               /\ processedTasks'[k].status \in {"completed", "failed"}
     /\ \A k \in DOMAIN processedTasks' \ DOMAIN processedTasks :
          processedTasks'[k].status = "processing"
     /\ Len(answered') > Len(answered) =>
          \A r \in Requests :
            (/\ Resolved(r)
             /\ RequestKey(r) \in DOMAIN processedTasks
             /\ HandleTask(r)) => (NewAnswer.status = "duplicate" /\ tasks' = tasks)
     /\ \A t, u \in 1..Len(tasks') :
          KeyOf(tasks'[t]) = KeyOf(tasks'[u]) => t = u]_vars

\* a task has failed and a request with its key has been answered
\* 'duplicate'; the entry is 'failed'
C29_Witness ==
  /\ Len(answered) = 2
  /\ answered[1].status = "accepted"
  /\ answered[2].status = "duplicate"
  /\ answered[2].key = answered[1].key
  /\ Len(tasks) = 1
  /\ tasks[1].pc = "failed"
  /\ processedTasks[answered[1].key].status = "failed"

(***************************************************************************)
(* C30                                                                     *)
(***************************************************************************)
\* task t has made its working copy and its push has not finished
UsesWorkdir(t) == tasks[t].pc \in {"write", "commit", "push"}

\* C30: while a task uses the working directory of its repository name
\* (from the step that creates the working copy to the end of its push) no
\* other task uses that directory, and every change of the directory is
\* the task's own step.
C30_WorkdirIsExclusive ==
  [][\A t \in 1..Len(tasks) :
       UsesWorkdir(t) =>
         /\ \A u \in 1..Len(tasks) :
              (UsesWorkdir(u) /\ tasks[u].repo = tasks[t].repo) => u = t
         /\ workdir'[tasks[t].repo] # workdir[tasks[t].repo] => Stepped(t)]_vars

(***************************************************************************)
(* C31                                                                     *)
(***************************************************************************)
\* C31: the commit getLatestCommitSha returns to a task, which the task
\* reports in its result and its payload, is the commit the task's own
\* push has sent, whatever other tasks have pushed to the repository in
\* between.
C31_ReportsOwnCommit ==
  [][\A t \in 1..Len(tasks) :
       (tasks[t].pc = "getsha" /\ tasks'[t].pc = "poll")
         => tasks'[t].commitSha = tasks[t].pushed]_vars

(***************************************************************************)
(* C32                                                                     *)
(***************************************************************************)
\* C32: when a round-2 task pushes while a round-1 task of the same
\* repository name exists and the remote branch is no longer at the commit
\* the round-2 task cloned, the push is rejected: the remote keeps its
\* commit and its files, and the round-2 task stays in its push loop or
\* ends 'failed'.
C32_UpdateNeverOverwrites ==
  [][\A u \in 1..Len(tasks) :
       (/\ tasks[u].round = 2
        /\ tasks[u].pc = "push"
        /\ head[tasks[u].repo] # tasks[u].cloned
        /\ \E p \in 1..Len(tasks) :
             tasks[p].round = 1 /\ tasks[p].repo = tasks[u].repo
        /\ Stepped(u))
       => /\ tasks'[u].pc \in {"push", "failed"}
          /\ head' = head
          /\ tree' = tree]_vars

(***************************************************************************)
(* C33                                                                     *)
(***************************************************************************)
\* C33: a task that has gone on from generateApplication to its first call
\* to the platform (repos.get in round 1, clone in round 2) makes that call,
\* and every later one, with a repository name that is not empty.
C33_RepoNameNotEmpty ==
  \A t \in 1..Len(tasks) :
    tasks[t].pc \notin {"generate", "failed"} => tasks[t].repo # <<>>

(***************************************************************************)
(* C34                                                                     *)
(***************************************************************************)
\* C34 as stated: once the endpoint has answered a POST of a task with a
\* 2xx status, no further POST is sent for that task.
C34_Any2xxStops ==
  [][\A t \in 1..Len(tasks) :
       tasks[t].acks > 0 => tasks'[t].posts = tasks[t].posts]_vars

\* C34, amended: only an answer with status 200 ends the notification: the
\* task is then completed and sends no further POST, so at most one POST of
\* a task is answered 200.  A 2xx answer other than 200 is handled as a
\* failure: the POST is sent again after the backoff, or, after the last
\* attempt, the task fails.
C34_Only200Stops ==
  [][\A t \in 1..Len(tasks) :
       LET me == tasks[t]
       IN  /\ me.oks = IF me.pc = "completed" THEN 1 ELSE 0
           /\ me.pc = "completed" => tasks'[t] = me
           /\ (me.pc = "notify" /\ Stepped(t)) =>
                /\ tasks'[t].oks = me.oks + 1 <=> tasks'[t].pc = "completed"
                /\ tasks'[t].oks = me.oks =>
                     IF me.attempt < MaxRetries
                     THEN /\ tasks'[t].pc = "notify"
                          /\ tasks'[t].attempt = me.attempt + 1
                          /\ tasks'[t].posts = me.posts + 1
                     ELSE tasks'[t].pc = "failed"]_vars

\* the endpoint answered the first POST of a task with a 2xx status other
\* than 200 and the second with 200
C34_Witness ==
  \E t \in 1..Len(tasks) :
    /\ tasks[t].pc = "completed"
    /\ tasks[t].posts = 2
    /\ tasks[t].acks = 2
    /\ tasks[t].oks = 1

(***************************************************************************)
(* C35                                                                     *)
(***************************************************************************)
\* C35: the time awaitLiveDeployment waits is fixed by the first status
\* query that reports 'built': when the i-th query (1 <= i <= maxChecks) is
\* the first to report it, the call has waited 5 s after each of the i-1
\* earlier queries and 10 s more, and returns true; when none of maxChecks
\* queries reports it, the call has waited 5 s after each and 15 s more, and
\* returns false.
C35_WaitOfPolling ==
  [][\A t \in 1..Len(tasks) :
       LET me == tasks[t]
           i  == tasks'[t].attempt
       IN  (me.pc \in {"innerpoll", "poll"} /\ Stepped(t)) =>
             /\ me.waited = PollIntervalMs * me.attempt
             /\ i = me.attempt + 1
             /\ IF tasks'[t].seen = "built"
                THEN /\ tasks'[t].pc # me.pc
                     /\ tasks'[t].built = "true"
                     /\ tasks'[t].waited = PollIntervalMs * (i - 1) + CdnWaitMs
                ELSE IF i < MaxChecks
                THEN /\ tasks'[t].pc = me.pc
                     /\ tasks'[t].waited = PollIntervalMs * i
                ELSE /\ tasks'[t].pc # me.pc
                     /\ tasks'[t].built = "false"
                     /\ tasks'[t].waited = PollIntervalMs * MaxChecks + SafetyWaitMs]_vars

\* the second status query of a call was the first to report 'built': the
\* call returned true after 5 s + 10 s
C35_Witness ==
  \E t \in 1..Len(tasks) :
    /\ tasks[t].pc = "settle"
    /\ tasks[t].built = "true"
    /\ tasks[t].seen = "built"
    /\ tasks[t].attempt = 2
    /\ tasks[t].waited = PollIntervalMs + CdnWaitMs

(***************************************************************************)
(* C36                                                                     *)
(***************************************************************************)
\* the response a request that passes validation and the secret check would
\* be given in the current state
ResponseTo(r) ==
  LET resolved == determineRepoName(r)
  IN  IF ~resolved.ok THEN <<resolved.err[1], ErrorStatus(resolved.err)>>
      ELSE IF Has(processedTasks, TaskKey(resolved.name, r.round))
           THEN <<"duplicate", 200>>
      ELSE <<"accepted", 200>>

\* the requests that pass validation and the secret check; every other
\* request is rejected by checks that read the request alone
Admitted ==
  [email : Emails, secret : {"good"}, task : TaskNames, round : {1, 2},
   nonce : {"n1"}, complete : {TRUE}]

\* C36: the failure of a background task changes the tracking entry of that
\* task's own key and nothing else the handler answers from: the entry of
\* every other key and the requester-to-task mapping stay as they were, no
\* response already given changes, and every request that passes validation
\* and the secret check would be given after the failure the response it
\* would have been given before it.
C36_FailureIsLocal ==
  [][\A t \in 1..Len(tasks) :
       (tasks[t].pc # "failed" /\ tasks'[t].pc = "failed") =>
         /\ DOMAIN processedTasks' = DOMAIN processedTasks
         /\ \A k \in DOMAIN processedTasks :
              k # KeyOf(tasks[t]) => processedTasks'[k] = processedTasks[k]
         /\ Status(KeyOf(tasks[t]))' = "failed"
         /\ repoTracking' = repoTracking
         /\ answered' = answered
         /\ \A u \in 1..Len(tasks) \ {t} : tasks'[u] = tasks[u]
         /\ \A r \in Admitted : ResponseTo(r)' = ResponseTo(r)]_vars

\* one background task has failed while the task of another key is in
\* progress and the requester-to-task mapping has an entry
C36_Witness ==
  \E t, u \in 1..Len(tasks) :
    /\ tasks[t].pc = "failed"
    /\ KeyOf(tasks[u]) # KeyOf(tasks[t])
    /\ Status(KeyOf(tasks[u])) = "processing"
    /\ Status(KeyOf(tasks[t])) = "failed"
    /\ DOMAIN repoTracking # {}

====
